---- MODULE Spec2Model ----
(***************************************************************************)
(* Project Armstrong: the Navigator/Commander control loop around the      *)
(* LunarLander process (src/main_mission.py, src/evaluate_agent.py), the   *)
(* execute_maneuver tool (src/agents.py) and the LunarLanderInterface      *)
(* (src/lunar_tools.py).                                                   *)
(***************************************************************************)
EXTENDS Integers, Sequences, FiniteSets, TLC

VARIABLES
    driver,         \* "mission" (main_mission.main) or "eval" (evaluate_agent.run_episode)
    pc,             \* position of the driver coroutine
    lander,         \* LunarLanderInterface fields: done, total_reward, steps, current_state, frames
    closed,         \* number of lander.close() calls
    step_count,     \* local step_count
    episode_reward, \* local episode_reward
    mission_log,    \* local mission_log (list of log_entry)
    telemetry_desc, \* local telemetry_desc of the current turn
    advice,         \* local advice of the current turn
    events,         \* local events (the Commander's event list)
    decision,       \* local decision
    result,         \* local result of lander.execute_maneuver
    burst,          \* locals of a running LunarLanderInterface.execute_maneuver
    fault,          \* the exception in flight: "none", "Exception", "KeyboardInterrupt"
    returned,       \* the value the driver returned to its caller (None before)
    saved_log,      \* contents of mission_log.json (None when never written)
    received,       \* the events the Commander call had produced when it ended
    timed_out,      \* asyncio.TimeoutError was raised in the current turn
    log_at_fault,   \* mission_log at the moment the fault was raised
    tool_args,      \* the arguments of the last execute_maneuver tool call
    tool_result,    \* the value that tool call returned
    maneuvers,      \* number of lander.execute_maneuver invocations so far
    inflight,       \* the runners whose run_async call has started and not ended
    nav_calls,      \* number of navigator_runner.run_async calls started
    cmd_calls,      \* number of commander_runner.run_async calls started
    fault_at,       \* the position at which the fault was raised ("none" before)
    nav_session,    \* history of the session nav_session.id in session_service
    cmd_session     \* history of the session cmd_session.id in session_service

vars == <<driver, pc, lander, closed, step_count, episode_reward, mission_log,
          telemetry_desc, advice, events, decision, result, burst, fault,
          returned, saved_log, received, timed_out, log_at_fault,
          tool_args, tool_result, maneuvers, inflight, nav_calls, cmd_calls,
          fault_at, nav_session, cmd_session>>

\* the bookkeeping of the two runners' calls, and the two sessions
calls == <<inflight, nav_calls, cmd_calls>>
sessions == <<nav_session, cmd_session>>

-----------------------------------------------------------------------------
(* Bounds of the model *)

\* max_steps of the mission driver (100 in the source), scaled down
MaxStepsMission == 2
\* max_steps of the evaluator (80 in the source), scaled down
MaxStepsEval == 2
\* frames after which the simulated process reports truncated (its time limit)
MaxFrames == 3
\* largest duration the validator is tried on
MaxTryDuration == 12
\* longest event list and longest part list the extraction is tried on
MaxEvents == 2
MaxParts == 2
\* number of turns the two sessions are followed over
MaxSessionTurns == 21

-----------------------------------------------------------------------------
(* Python values *)

None == [none |-> TRUE]

\* a dynamically typed tool argument: an int, a float (in tenths) or a str
IntV(n) == [kind |-> "int", n |-> n, s |-> ""]
FloatV(tenths) == [kind |-> "float", n |-> tenths, s |-> ""]
StrV(s) == [kind |-> "str", n |-> 0, s |-> s]

\* the strings int() parses, with their values
IntLiterals == [s \in {"1"} |-> 1]

\* int(v): truncation toward zero of a float, parsing of a str; ok = FALSE
\* when it raises ValueError
PyInt(v) ==
    CASE v.kind = "int" -> [ok |-> TRUE, n |-> v.n]
      [] v.kind = "float" ->
            [ok |-> TRUE,
             n |-> IF v.n >= 0 THEN v.n \div 10 ELSE -((-v.n) \div 10)]
      [] v.kind = "str" ->
            IF v.s \in DOMAIN IntLiterals
            THEN [ok |-> TRUE, n |-> IntLiterals[v.s]]
            ELSE [ok |-> FALSE, n |-> 0]

-----------------------------------------------------------------------------
(* agents.py: the execute_maneuver tool *)

valid_actions == <<"MAIN_ENGINE", "LEFT_ENGINE", "RIGHT_ENGINE", "HOLD">>

Range(s) == {s[i] : i \in DOMAIN s}

MutToolExclusiveUpper(action, duration, reasoning) ==
    IF action \notin Range(valid_actions)
    THEN [status |-> "error", error_message |-> "Invalid action"]
    ELSE IF ~(1 <= duration /\ duration < 10)
    THEN [status |-> "error", error_message |-> "Invalid duration"]
    ELSE [status |-> "success", action |-> action, duration |-> duration,
          reasoning |-> reasoning]

\* def execute_maneuver(action, duration, reasoning)
execute_maneuver_tool(action, duration, reasoning) ==
    IF action \notin Range(valid_actions)
    THEN [status |-> "error", error_message |-> "Invalid action"]
    ELSE IF ~(1 <= duration /\ duration <= 10)
    THEN [status |-> "error", error_message |-> "Invalid duration"]
    ELSE [status |-> "success", action |-> action, duration |-> duration,
          reasoning |-> reasoning]

-----------------------------------------------------------------------------
(* The Commander's response: a list of events, each with optional content  *)
(* holding parts; a part carries text or a function_call with args.        *)

TextPart(t) == [text |-> t, function_call |-> None]
CallPart(args) == [text |-> "", function_call |-> [name |-> "execute_maneuver", args |-> args]]
Event(parts) == [content |-> [parts |-> parts]]
NoContentEvent == [content |-> None]

\* hasattr(part, 'function_call') and part.function_call
IsCall(part) == part.function_call # None

\* hasattr(event, 'content') and event.content and event.content.parts
HasParts(event) == event.content # None /\ Len(event.content.parts) > 0

\* fn.args.get(key, default)
ArgsGet(args, key, default) == IF key \in DOMAIN args THEN args[key] ELSE default

MutDefaultDecisionMainEngine ==
    [action |-> "MAIN_ENGINE", duration |-> 1, reasoning |-> "Fallback"]

\* decision = {"action": "HOLD", "duration": 1, "reasoning": "Fallback"}
DefaultDecision == [action |-> "HOLD", duration |-> 1, reasoning |-> "Fallback"]

\* the dict built from fn.args; raised when int() raises
FromCall(args) ==
    LET d == PyInt(ArgsGet(args, "duration", IntV(1)))
    IN  [raised |-> ~d.ok,
         decision |-> [action |-> ArgsGet(args, "action", "HOLD"),
                       duration |-> d.n,
                       reasoning |-> ArgsGet(args, "reasoning", "No reasoning provided")]]

\* a function call assigns decision and sets found, or raises
Assign(st, part) ==
    LET c == FromCall(part.function_call.args)
    IN  IF c.raised
        THEN [st EXCEPT !.raised = TRUE]
        ELSE [st EXCEPT !.decision = c.decision, !.found = TRUE]

RECURSIVE MutPartsLoopNoBreak(_, _, _)
MutPartsLoopNoBreak(parts, j, st) ==
    IF j > Len(parts) \/ st.raised THEN st
    ELSE MutPartsLoopNoBreak(parts, j + 1,
                             IF IsCall(parts[j]) THEN Assign(st, parts[j]) ELSE st)

\* for part in event.content.parts: ... break at the first function call
RECURSIVE PartsLoop(_, _, _)
PartsLoop(parts, j, st) ==
    IF j > Len(parts) THEN st
    ELSE IF IsCall(parts[j]) THEN Assign(st, parts[j])
    ELSE PartsLoop(parts, j + 1, st)

RECURSIVE MutEventsLoopNoFoundCheck(_, _, _)
MutEventsLoopNoFoundCheck(evs, i, st) ==
    IF i > Len(evs) \/ st.raised THEN st
    ELSE MutEventsLoopNoFoundCheck(evs, i + 1,
                    IF HasParts(evs[i]) THEN PartsLoop(evs[i].content.parts, 1, st)
                    ELSE st)

\* for event in events: if found: break; ...
RECURSIVE EventsLoop(_, _, _)
EventsLoop(evs, i, st) ==
    IF i > Len(evs) \/ st.found \/ st.raised THEN st
    ELSE EventsLoop(evs, i + 1,
                    IF HasParts(evs[i]) THEN PartsLoop(evs[i].content.parts, 1, st)
                    ELSE st)

\* the extraction of the turn's decision, starting from the value of decision
ExtractDecision(evs, start) ==
    EventsLoop(evs, 1, [decision |-> start, found |-> FALSE, raised |-> FALSE])

-----------------------------------------------------------------------------
(* lunar_tools.py: LunarLanderInterface and the simulated process *)

\* the rewards env.step may report for one frame
Rewards == {-100, 0, 100}

\* A reward is a Python float.  A float is modelled as an integer count of
\* the smallest reward step that has at most MantissaBits significant bits
\* (53 in the program), and float addition rounds the exact sum to the
\* nearest such number, a tie going to the even mantissa.
MantissaBits == 7

RECURSIVE Ulp(_, _)
\* the spacing of the floats around magnitude a: the least u = 2^k, k >= 0,
\* with a < 2^MantissaBits * u
Ulp(a, u) == IF a < (2 ^ MantissaBits) * u THEN u ELSE Ulp(a, 2 * u)

\* the float nearest to the number x
FRound(x) ==
    LET a == IF x < 0 THEN -x ELSE x
        u == Ulp(a, 1)
        q == a \div u
        r == a % u
        up == 2 * r > u \/ (2 * r = u /\ q % 2 = 1)
        m == (IF up THEN q + 1 ELSE q) * u
    IN  IF x < 0 THEN -m ELSE m

\* a + b (and a += b) on floats
FAdd(a, b) == FRound(a + b)

MutActionMapSwapped(action_name) ==
    CASE action_name = "HOLD" -> 0
      [] action_name = "MAIN_ENGINE" -> 2
      [] action_name = "LEFT_ENGINE" -> 1
      [] action_name = "RIGHT_ENGINE" -> 3
      [] OTHER -> 0

\* action_map.get(action_name, 0)
action_map(action_name) ==
    CASE action_name = "HOLD" -> 0
      [] action_name = "MAIN_ENGINE" -> 2
      [] action_name = "LEFT_ENGINE" -> 3
      [] action_name = "RIGHT_ENGINE" -> 1
      [] OTHER -> 0

\* The state vector env.reset and env.step return holds 8 scalars
\* [x, y, vx, vy, angle, angular velocity, leg 1 contact, leg 2 contact]
\* (Python indices 0..7, here 1..8); a float is modelled in thousandths and
\* a leg scalar is 0.0 or 1.0
ResetState == <<-123, 1404, 38, -467, 52, -19, 0, 0>>

\* one frame of a process that drifts, falls and turns, and touches the
\* ground with both legs once its altitude is used up
Drift(s) ==
    LET y == s[2] + s[4]
    IN  <<s[1] + s[3], y, s[3], s[4] - 27, s[5] + s[6], s[6],
          IF y <= 0 THEN 1000 ELSE 0, IF y <= 0 THEN 1000 ELSE 0>>

\* state vectors of a process in flight, on its left leg, on its right leg
\* and on both
Vectors ==
    {<<-123, 1404, 38, -467, 52, -19, 0, 0>>,
     <<211, 96, -8, -64, -31, 17, 1000, 0>>,
     <<-46, 73, 12, -58, 24, -6, 0, 1000>>,
     <<9, 2, 0, -1, 3, 0, 1000, 1000>>}

\* the state vectors env.step may return after state s: those of a free
\* process are any of Vectors, a drifting process has one successor
NextStates(l) ==
    IF l.env.free THEN Vectors ELSE {Drift(l.current_state)}

MutTelemetrySwapsAxes(l) ==
    LET s == l.current_state
    IN  [altitude |-> s[1],
         horizontal_position |-> s[2],
         vertical_velocity |-> s[3],
         horizontal_velocity |-> s[4],
         angle |-> s[5],
         angular_velocity |-> s[6],
         left_leg_contact |-> s[7] # 0,
         right_leg_contact |-> s[8] # 0,
         steps_taken |-> l.steps]

\* LunarLanderInterface.get_telemetry: float(s[k]) keeps the value and
\* bool(s[k]) is s[k] != 0
get_telemetry(l) ==
    LET s == l.current_state
    IN  [altitude |-> s[2],
         horizontal_position |-> s[1],
         vertical_velocity |-> s[4],
         horizontal_velocity |-> s[3],
         angle |-> s[5],
         angular_velocity |-> s[6],
         left_leg_contact |-> s[7] # 0,
         right_leg_contact |-> s[8] # 0,
         steps_taken |-> l.steps]

\* "{:.2f}".format(v): the sign and the magnitude rounded to hundredths, a
\* tie going to the even digit
Fmt2(v) ==
    LET a == IF v < 0 THEN -v ELSE v
        q == a \div 10
        r == a % 10
        up == r > 5 \/ (r = 5 /\ q % 2 = 1)
    IN  [sign |-> IF v < 0 THEN "-" ELSE "",
         hundredths |-> IF up THEN q + 1 ELSE q]

\* LunarLanderInterface.get_telemetry_description: the fields of the f-string
get_telemetry_description(l) ==
    LET t == get_telemetry(l)
    IN  [altitude |-> Fmt2(t.altitude),
         position_x |-> Fmt2(t.horizontal_position),
         vertical_velocity |-> Fmt2(t.vertical_velocity),
         horizontal_velocity |-> Fmt2(t.horizontal_velocity),
         angle |-> Fmt2(t.angle),
         status |-> IF t.left_leg_contact \/ t.right_leg_contact
                    THEN "Touchdown imminent/Landed" ELSE "Flying"]

\* the interface's fields after one pass of the frame loop's body, env.step
\* having returned next_state, reward and the two flags; frames is
\* len(self.frames), env the process behind the interface
StepLander(l, next_state, reward, terminated, truncated) ==
    [done |-> terminated \/ truncated,
     total_reward |-> FAdd(l.total_reward, reward),
     steps |-> l.steps + 1,
     current_state |-> next_state,
     frames |-> l.frames + 1,
     env |-> l.env]

MutLoopChecksDoneAtCall(b, l) == b.i < b.duration /\ ~b.done_before

MutLoopIgnoresDone(b, l) == b.i < b.duration

\* for _ in range(duration): if self.done: break
LoopContinues(b, l) == b.i < b.duration /\ ~l.done

MutManeuverResultRunningTotal(b, l) ==
    [final_telemetry |-> get_telemetry(l),
     reward_accumulated |-> l.total_reward,
     done |-> l.done,
     action_executed |-> b.action_name,
     duration |-> b.duration]

\* the dict execute_maneuver returns
ManeuverResult(b, l) ==
    [final_telemetry |-> get_telemetry(l),
     reward_accumulated |-> b.step_rewards,
     done |-> l.done,
     action_executed |-> b.action_name,
     duration |-> b.duration]

-----------------------------------------------------------------------------
(* main_mission.py / evaluate_agent.py: the episode drivers *)

\* max_steps = 100 (mission), max_steps = 80 (evaluation)
max_steps == IF driver = "mission" THEN MaxStepsMission ELSE MaxStepsEval

\* the texts the Navigator may answer; "" when no final response carried text
Advices == {"", "decelerate"}

MutClassifyStrict(total) ==
    IF total > 200 THEN "SUCCESS"
    ELSE IF total <= -100 THEN "CRASH"
    ELSE "INCOMPLETE"

\* result_status of the mission driver
Classify(total) ==
    IF total >= 200 THEN "SUCCESS"
    ELSE IF total <= -100 THEN "CRASH"
    ELSE "INCOMPLETE"

\* "success" of the evaluator's result
Success(total) == total >= 200

\* tool calls the Commander may make
callBrake == [action |-> "MAIN_ENGINE", duration |-> IntV(2), reasoning |-> "brake"]
callTilt == [action |-> "LEFT_ENGINE", duration |-> IntV(1), reasoning |-> "tilt"]
callRight == [action |-> "RIGHT_ENGINE", duration |-> IntV(2), reasoning |-> "level"]
callFly == [action |-> "FLY", duration |-> IntV(11), reasoning |-> "up"]
callNegative == [action |-> "HOLD", duration |-> IntV(-1), reasoning |-> "wait"]
callNotInt == [action |-> "MAIN_ENGINE", duration |-> StrV("long"), reasoning |-> "brake"]

\* the event lists commander_runner.run_async may produce in a turn
Responses ==
    { <<>>,
      <<Event(<<TextPart("holding")>>)>>,
      <<Event(<<CallPart(callBrake)>>)>>,
      <<Event(<<CallPart(callRight)>>)>>,
      <<NoContentEvent,
        Event(<<TextPart("tilting"), CallPart(callTilt), CallPart(callBrake)>>),
        Event(<<CallPart(callFly)>>)>>,
      <<Event(<<CallPart(callFly)>>)>>,
      <<Event(<<CallPart(callNegative)>>)>>,
      <<Event(<<CallPart(callNotInt)>>)>> }

\* EventsCompactionConfig(compaction_interval=10, overlap_size=2)
compaction_interval == 10
overlap_size == 2

MutNavigatorNoCompaction == None

\* navigator_runner = Runner(app=app, ...): the App carries the compaction
\* config
navigator_compaction ==
    [compaction_interval |-> compaction_interval, overlap_size |-> overlap_size]

\* commander_runner = Runner(agent=commander, app_name=..., ...): built from
\* the agent alone, no events_compaction_config reaches it
commander_compaction == None

\* one exchange of a session: the turn's message and the reply to it
Exchange(turn, text) == [kind |-> "exchange", turn |-> turn, text |-> text]

IsExchange(e) == e.kind = "exchange"

\* the exchanges of a session held in full
FullExchanges(session) == SelectSeq(session, IsExchange)

\* number of exchanges the entries of a history stand for
RECURSIVE Covered(_)
Covered(session) ==
    IF Len(session) = 0 THEN 0
    ELSE (IF IsExchange(Head(session)) THEN 1 ELSE Head(session).covers)
         + Covered(Tail(session))

\* compaction of a history: all but the most recent K exchanges collapse
\* into a single summarized entry ("Keep last 2 turns for context")
Compact(session, K) ==
    IF Len(FullExchanges(session)) <= K THEN session
    ELSE LET cut == Len(session) - K
         IN  <<[kind |-> "summary", covers |-> Covered(SubSeq(session, 1, cut))]>>
             \o SubSeq(session, cut + 1, Len(session))

\* a runner's run_async on a session: the exchange is appended, and a runner
\* with a compaction config compacts after every compaction_interval calls
\* ("Compact after every 10 conversation turns")
RunExchange(session, config, exchange, n) ==
    LET appended == Append(session, exchange)
    IN  IF config # None /\ n % config.compaction_interval = 0
        THEN Compact(appended, config.overlap_size)
        ELSE appended

\* json.dump(mission_log, f): the contents of the file written
json_dump(log) == [entries |-> log]

MutHandleFaultDropsLog(kind) ==
    /\ fault' = kind
    /\ fault_at' = pc
    /\ inflight' = {}
    /\ log_at_fault' = mission_log
    /\ closed' = closed + 1
    /\ saved_log' = IF driver = "mission" THEN json_dump(<<>>) ELSE saved_log
    /\ IF driver = "mission"
       THEN IF kind = "KeyboardInterrupt"
            THEN /\ returned' = [status |-> "ABORTED",
                                 total_reward |-> episode_reward,
                                 steps |-> step_count]
                 /\ pc' = "returned"
            ELSE /\ returned' = returned
                 /\ pc' = "raised"
       ELSE IF kind = "Exception"
            THEN /\ returned' = [episode_id |-> 1,
                                 total_reward |-> episode_reward,
                                 steps |-> step_count,
                                 success |-> Success(episode_reward),
                                 log |-> <<>>]
                 /\ pc' = "returned"
            ELSE /\ returned' = returned
                 /\ pc' = "raised"

\* the statements a raised exception runs on its way out of the driver:
\* mission: except KeyboardInterrupt returns ABORTED, finally saves the log
\* and closes; evaluation: except Exception swallows, finally closes, and
\* the result is returned
HandleFault(kind) ==
    /\ fault' = kind
    /\ fault_at' = pc
    /\ inflight' = {}
    /\ log_at_fault' = mission_log
    /\ closed' = closed + 1
    /\ saved_log' = IF driver = "mission" THEN json_dump(mission_log) ELSE saved_log
    /\ IF driver = "mission"
       THEN IF kind = "KeyboardInterrupt"
            THEN /\ returned' = [status |-> "ABORTED",
                                 total_reward |-> episode_reward,
                                 steps |-> step_count]
                 /\ pc' = "returned"
            ELSE /\ returned' = returned
                 /\ pc' = "raised"
       ELSE IF kind = "Exception"
            THEN /\ returned' = [episode_id |-> 1,
                                 total_reward |-> episode_reward,
                                 steps |-> step_count,
                                 success |-> Success(episode_reward),
                                 log |-> mission_log]
                 /\ pc' = "returned"
            ELSE /\ returned' = returned
                 /\ pc' = "raised"

\* the values os.getenv("GOOGLE_API_KEY") may give; unset and empty are both
\* false in "if not api_key"
ApiKeys == {"", "key"}

\* LunarLanderInterface(): __init__ and the reset() it ends with
NewLander ==
    [done |-> FALSE, total_reward |-> 0, steps |-> 0,
     current_state |-> ResetState, frames |-> 0,
     env |-> [rewards |-> Rewards, free |-> FALSE]]

MutCheckKeyAfterLander ==
    /\ pc = "start"
    /\ \E api_key \in ApiKeys :
          IF api_key = ""
          THEN /\ returned' = IF driver = "mission"
                              THEN [status |-> "ABORTED", error |-> "No API key"]
                              ELSE None
               /\ lander' = NewLander
               /\ pc' = "no_key"
          ELSE /\ returned' = returned
               /\ lander' = NewLander
               /\ pc' = "setup"
    /\ UNCHANGED <<sessions, calls, fault_at,
                   maneuvers, driver, closed, step_count, episode_reward,
                   mission_log, telemetry_desc, advice, events, decision,
                   result, burst, fault, saved_log, received, timed_out,
                   log_at_fault, tool_args, tool_result>>

\* if not api_key: the entry point returns (mission: the ABORTED dict;
\* evaluation: main returns nothing); otherwise lander = LunarLanderInterface()
CheckKey ==
    /\ pc = "start"
    /\ \E api_key \in ApiKeys :
          IF api_key = ""
          THEN /\ returned' = IF driver = "mission"
                              THEN [status |-> "ABORTED", error |-> "No API key"]
                              ELSE None
               /\ lander' = lander
               /\ pc' = "no_key"
          ELSE /\ returned' = returned
               /\ lander' = NewLander
               /\ pc' = "setup"
    /\ UNCHANGED <<sessions, calls, fault_at,
                   maneuvers, driver, closed, step_count, episode_reward,
                   mission_log, telemetry_desc, advice, events, decision,
                   result, burst, fault, saved_log, received, timed_out,
                   log_at_fault, tool_args, tool_result>>

\* the agents, the App, the runners and the two sessions are created, and
\* the locals of the loop are set
Setup ==
    /\ pc = "setup"
    /\ nav_session' = <<>>
    /\ cmd_session' = <<>>
    /\ mission_log' = <<>>
    /\ episode_reward' = 0
    /\ step_count' = 0
    /\ pc' = "loop"
    /\ UNCHANGED <<calls, fault_at,
                   maneuvers, driver, lander, closed, telemetry_desc, advice,
                   events, decision, result, burst, fault, returned,
                   saved_log, received, timed_out, log_at_fault, tool_args,
                   tool_result>>

\* an exception raised between the creation of the lander and the try
\* block: no handler and no finally block is around these statements
SetupFault ==
    /\ pc = "setup"
    /\ \E kind \in {"Exception", "KeyboardInterrupt"} : fault' = kind
    /\ fault_at' = "setup"
    /\ log_at_fault' = mission_log
    /\ pc' = "raised"
    /\ UNCHANGED <<sessions, calls,
                   maneuvers, driver, lander, closed, step_count,
                   episode_reward, mission_log, telemetry_desc, advice,
                   events, decision, result, burst, returned, saved_log,
                   received, timed_out, tool_args, tool_result>>

MutLoopTestIgnoresDone ==
    /\ pc = "loop"
    /\ IF step_count < max_steps
       THEN /\ step_count' = step_count + 1
            /\ pc' = "telemetry"
       ELSE /\ step_count' = step_count
            /\ pc' = "end"
    /\ timed_out' = FALSE
    /\ UNCHANGED <<sessions, calls, fault_at,
                   maneuvers, driver, lander, closed, episode_reward, mission_log,
                   telemetry_desc, advice, events, decision, result, burst,
                   fault, returned, saved_log, received, log_at_fault,
                   tool_args, tool_result>>

\* while not lander.done and step_count < max_steps: step_count += 1
LoopTest ==
    /\ pc = "loop"
    /\ IF ~lander.done /\ step_count < max_steps
       THEN /\ step_count' = step_count + 1
            /\ pc' = "telemetry"
       ELSE /\ step_count' = step_count
            /\ pc' = "end"
    /\ timed_out' = FALSE
    /\ UNCHANGED <<sessions, calls, fault_at,
                   maneuvers, driver, lander, closed, episode_reward, mission_log,
                   telemetry_desc, advice, events, decision, result, burst,
                   fault, returned, saved_log, received, log_at_fault,
                   tool_args, tool_result>>

\* A. telemetry_desc = lander.get_telemetry_description(); advice = "" and
\* the Navigator call starts
GetTelemetry ==
    /\ pc = "telemetry"
    /\ telemetry_desc' = get_telemetry_description(lander)
    /\ advice' = ""
    /\ inflight' = inflight \cup {"navigator"}
    /\ nav_calls' = nav_calls + 1
    /\ pc' = "navigator"
    /\ UNCHANGED <<sessions, cmd_calls, fault_at,
                   maneuvers, driver, lander, closed, step_count, episode_reward,
                   mission_log, events, decision, result, burst, fault,
                   returned, saved_log, received, timed_out, log_at_fault,
                   tool_args, tool_result>>

\* B. the Navigator's run_async ends; C. decision = the fallback and the
\* Commander call starts
NavigatorReturn ==
    /\ pc = "navigator"
    /\ \E a \in Advices :
          /\ advice' = a
          /\ nav_session' = RunExchange(nav_session, navigator_compaction,
                                        Exchange(step_count, a), nav_calls)
    /\ decision' = DefaultDecision
    /\ inflight' = (inflight \ {"navigator"}) \cup {"commander"}
    /\ cmd_calls' = cmd_calls + 1
    /\ pc' = "commander"
    /\ UNCHANGED <<cmd_session, nav_calls, fault_at,
                   maneuvers, driver, lander, closed, step_count, episode_reward,
                   mission_log, telemetry_desc, events, result, burst, fault,
                   returned, saved_log, received, timed_out, log_at_fault,
                   tool_args, tool_result>>

\* events = await asyncio.wait_for(run_commander_with_timeout(), 30.0)
CommanderReturn ==
    /\ pc = "commander"
    /\ \E r \in Responses : events' = r /\ received' = r
    /\ cmd_session' = RunExchange(cmd_session, commander_compaction,
                                  Exchange(step_count, "maneuver"), cmd_calls)
    /\ inflight' = inflight \ {"commander"}
    /\ pc' = "extract"
    /\ UNCHANGED <<nav_session, nav_calls, cmd_calls, fault_at,
                   maneuvers, driver, lander, closed, step_count, episode_reward,
                   mission_log, telemetry_desc, advice, decision, result,
                   burst, fault, returned, saved_log, timed_out,
                   log_at_fault, tool_args, tool_result>>

\* what the Commander call may have produced when the deadline cancels it:
\* nothing, a valid tool call or a malformed one
PartialResponses ==
    { <<>>,
      <<Event(<<CallPart(callBrake)>>)>>,
      <<Event(<<CallPart(callNotInt)>>)>> }

MutTimeoutKeepsEvents ==
    /\ pc = "commander"
    /\ \E r \in PartialResponses : received' = r /\ events' = r
    /\ timed_out' = TRUE
    /\ cmd_session' = RunExchange(cmd_session, commander_compaction,
                                  Exchange(step_count, "maneuver"), cmd_calls)
    /\ inflight' = inflight \ {"commander"}
    /\ pc' = "extract"
    /\ UNCHANGED <<nav_session, nav_calls, cmd_calls, fault_at,
                   maneuvers, driver, lander, closed, step_count, episode_reward,
                   mission_log, telemetry_desc, advice, decision, result,
                   burst, fault, returned, saved_log, log_at_fault,
                   tool_args, tool_result>>

MutTimeoutLeavesCallRunning ==
    /\ pc = "commander"
    /\ \E r \in PartialResponses : received' = r
    /\ events' = <<>>
    /\ timed_out' = TRUE
    /\ cmd_session' = RunExchange(cmd_session, commander_compaction,
                                  Exchange(step_count, "maneuver"), cmd_calls)
    /\ inflight' = inflight
    /\ pc' = "extract"
    /\ UNCHANGED <<nav_session, nav_calls, cmd_calls, fault_at,
                   maneuvers, driver, lander, closed, step_count, episode_reward,
                   mission_log, telemetry_desc, advice, decision, result,
                   burst, fault, returned, saved_log, log_at_fault,
                   tool_args, tool_result>>

\* except asyncio.TimeoutError: events = []; wait_for has cancelled the
\* Commander call before it raises
CommanderTimeout ==
    /\ pc = "commander"
    /\ \E r \in PartialResponses : received' = r
    /\ events' = <<>>
    /\ timed_out' = TRUE
    /\ cmd_session' = RunExchange(cmd_session, commander_compaction,
                                  Exchange(step_count, "maneuver"), cmd_calls)
    /\ inflight' = inflight \ {"commander"}
    /\ pc' = "extract"
    /\ UNCHANGED <<nav_session, nav_calls, cmd_calls, fault_at,
                   maneuvers, driver, lander, closed, step_count, episode_reward,
                   mission_log, telemetry_desc, advice, decision, result,
                   burst, fault, returned, saved_log, log_at_fault,
                   tool_args, tool_result>>

\* Extract decision from FIRST function call found; int() may raise
Extract ==
    /\ pc = "extract"
    /\ LET st == ExtractDecision(events, decision)
       IN  IF st.raised
           THEN /\ HandleFault("Exception")
                /\ decision' = decision
           ELSE /\ decision' = st.decision
                /\ pc' = "execute"
                /\ UNCHANGED <<closed, fault, returned, saved_log, log_at_fault,
                               fault_at, inflight>>
    /\ UNCHANGED <<sessions, nav_calls, cmd_calls,
                   maneuvers, driver, lander, step_count, episode_reward, mission_log,
                   telemetry_desc, advice, events, result, burst, received,
                   timed_out, tool_args, tool_result>>

\* D. lander.execute_maneuver(decision['action'], decision['duration']) is
\* entered: action_code and step_rewards are set
ExecuteCall ==
    /\ pc = "execute"
    /\ burst' = [action_name |-> decision.action,
                 duration |-> decision.duration,
                 action_code |-> action_map(decision.action),
                 step_rewards |-> 0,
                 i |-> 0,
                 steps_before |-> lander.steps,
                 done_before |-> lander.done,
                 terminal_at |-> 0,
                 codes |-> {},
                 frame_rewards |-> <<>>]
    /\ maneuvers' = maneuvers + 1
    /\ pc' = "burst"
    /\ UNCHANGED <<sessions, calls, fault_at, driver, lander, closed, step_count, episode_reward,
                   mission_log, telemetry_desc, advice, events, decision,
                   result, fault, returned, saved_log, received, timed_out,
                   log_at_fault, tool_args, tool_result>>

\* one iteration of the frame loop: env.step(action_code) and the updates
BurstFrame ==
    /\ pc = "burst"
    /\ LoopContinues(burst, lander)
    /\ \E reward \in lander.env.rewards, terminated \in BOOLEAN,
          next_state \in NextStates(lander) :
          /\ lander' = StepLander(lander, next_state, reward, terminated,
                                  lander.steps + 1 >= MaxFrames)
          /\ burst' = [burst EXCEPT
                          !.i = @ + 1,
                          !.step_rewards = FAdd(@, reward),
                          !.codes = @ \cup {burst.action_code},
                          !.frame_rewards = Append(@, reward),
                          !.terminal_at =
                              IF @ = 0 /\ (terminated \/ lander.steps + 1 >= MaxFrames)
                              THEN burst.i + 1 ELSE @]
    /\ UNCHANGED <<sessions, calls, fault_at,
                   maneuvers, driver, pc, closed, step_count, episode_reward,
                   mission_log, telemetry_desc, advice, events, decision,
                   result, fault, returned, saved_log, received, timed_out,
                   log_at_fault, tool_args, tool_result>>

\* the frame loop ends; execute_maneuver returns and
\* episode_reward += result['reward_accumulated']; the rewards env.step
\* returned during the invocation are kept nowhere
BurstReturn ==
    /\ pc = "burst"
    /\ ~LoopContinues(burst, lander)
    /\ result' = ManeuverResult(burst, lander)
    /\ episode_reward' = FAdd(episode_reward, burst.step_rewards)
    /\ burst' = [burst EXCEPT !.frame_rewards = <<>>]
    /\ pc' = "log"
    /\ UNCHANGED <<sessions, calls, fault_at,
                   maneuvers, driver, lander, closed, step_count, mission_log,
                   telemetry_desc, advice, events, decision, fault,
                   returned, saved_log, received, timed_out, log_at_fault,
                   tool_args, tool_result>>

MutLogAppendOverwritesLast ==
    /\ pc = "log"
    /\ LET log_entry == [step |-> step_count,
                         telemetry |-> telemetry_desc,
                         navigator_advice |-> advice,
                         commander_decision |-> decision,
                         execution_result |-> result]
       IN  mission_log' = IF Len(mission_log) = 0 THEN <<log_entry>>
                          ELSE [mission_log EXCEPT ![Len(mission_log)] = log_entry]
    /\ pc' = "sleep"
    /\ UNCHANGED <<sessions, calls, fault_at,
                   maneuvers, driver, lander, closed, step_count, episode_reward,
                   telemetry_desc, advice, events, decision, result, burst,
                   fault, returned, saved_log, received, timed_out,
                   log_at_fault, tool_args, tool_result>>

\* E. mission_log.append(log_entry)
LogAppend ==
    /\ pc = "log"
    /\ mission_log' = Append(mission_log,
                             [step |-> step_count,
                              telemetry |-> telemetry_desc,
                              navigator_advice |-> advice,
                              commander_decision |-> decision,
                              execution_result |-> result])
    /\ pc' = "sleep"
    /\ UNCHANGED <<sessions, calls, fault_at,
                   maneuvers, driver, lander, closed, step_count, episode_reward,
                   telemetry_desc, advice, events, decision, result, burst,
                   fault, returned, saved_log, received, timed_out,
                   log_at_fault, tool_args, tool_result>>

\* await asyncio.sleep(9.0)
Sleep ==
    /\ pc = "sleep"
    /\ pc' = "loop"
    /\ UNCHANGED <<sessions, calls, fault_at,
                   maneuvers, driver, lander, closed, step_count, episode_reward,
                   mission_log, telemetry_desc, advice, events, decision,
                   result, burst, fault, returned, saved_log, received,
                   timed_out, log_at_fault, tool_args, tool_result>>

\* the places of a turn where an exception may be raised
FaultPoints == {"telemetry", "navigator", "commander", "burst", "log", "sleep"}

MutRaiseAdvisorFallback ==
    /\ pc \in FaultPoints
    /\ IF pc = "navigator"
       THEN /\ fault' = "Exception"
            /\ fault_at' = pc
            /\ advice' = "hold steady"
            /\ decision' = DefaultDecision
            /\ inflight' = {"commander"}
            /\ cmd_calls' = cmd_calls + 1
            /\ pc' = "commander"
            /\ UNCHANGED <<log_at_fault, closed, saved_log, returned>>
       ELSE /\ \E kind \in {"Exception", "KeyboardInterrupt"} : HandleFault(kind)
            /\ UNCHANGED <<advice, decision, cmd_calls>>
    /\ UNCHANGED <<sessions, nav_calls,
                   maneuvers, driver, lander, step_count, episode_reward,
                   mission_log, telemetry_desc, events, result, burst,
                   received, timed_out, tool_args, tool_result>>

\* an exception raised inside the try block of the turn loop
Raise ==
    /\ pc \in FaultPoints
    /\ \E kind \in {"Exception", "KeyboardInterrupt"} : HandleFault(kind)
    /\ UNCHANGED <<sessions, nav_calls, cmd_calls,
                   maneuvers, driver, lander, step_count, episode_reward, mission_log,
                   telemetry_desc, advice, events, decision, result, burst,
                   received, timed_out, tool_args, tool_result>>

\* 3. Mission End: the classification, the return and the finally block
MissionEnd ==
    /\ pc = "end"
    /\ driver = "mission"
    /\ returned' = [status |-> Classify(lander.total_reward),
                    total_reward |-> episode_reward,
                    steps |-> step_count,
                    log |-> mission_log]
    /\ saved_log' = json_dump(mission_log)
    /\ closed' = closed + 1
    /\ pc' = "returned"
    /\ UNCHANGED <<sessions, calls, fault_at,
                   maneuvers, driver, lander, step_count, episode_reward, mission_log,
                   telemetry_desc, advice, events, decision, result, burst,
                   fault, received, timed_out, log_at_fault, tool_args,
                   tool_result>>

\* the end of run_episode: finally lander.close(), then the returned dict
EvalEnd ==
    /\ pc = "end"
    /\ driver = "eval"
    /\ closed' = closed + 1
    /\ returned' = [episode_id |-> 1,
                    total_reward |-> episode_reward,
                    steps |-> step_count,
                    success |-> Success(episode_reward),
                    log |-> mission_log]
    /\ pc' = "returned"
    /\ UNCHANGED <<sessions, calls, fault_at,
                   maneuvers, driver, lander, step_count, episode_reward, mission_log,
                   telemetry_desc, advice, events, decision, result, burst,
                   fault, saved_log, received, timed_out, log_at_fault,
                   tool_args, tool_result>>

\* the values before the entry point has run, for driver d at position p
Start(d, p) ==
    /\ maneuvers = 0
    /\ driver = d
    /\ pc = p
    /\ lander = None
    /\ inflight = {}
    /\ nav_calls = 0
    /\ cmd_calls = 0
    /\ fault_at = "none"
    /\ nav_session = <<>>
    /\ cmd_session = <<>>
    /\ closed = 0
    /\ step_count = 0
    /\ episode_reward = 0
    /\ mission_log = <<>>
    /\ telemetry_desc = None
    /\ advice = ""
    /\ events = <<>>
    /\ decision = None
    /\ result = None
    /\ burst = None
    /\ fault = "none"
    /\ returned = None
    /\ saved_log = None
    /\ received = <<>>
    /\ timed_out = FALSE
    /\ log_at_fault = <<>>
    /\ tool_args = None
    /\ tool_result = None

Init == \E d \in {"mission", "eval"} : Start(d, "start")

Next ==
    \/ CheckKey
    \/ Setup
    \/ SetupFault
    \/ LoopTest
    \/ GetTelemetry
    \/ NavigatorReturn
    \/ CommanderReturn
    \/ CommanderTimeout
    \/ Extract
    \/ ExecuteCall
    \/ BurstFrame
    \/ BurstReturn
    \/ LogAppend
    \/ Sleep
    \/ Raise
    \/ MissionEnd
    \/ EvalEnd

Spec == Init /\ [][Next]_vars

\* the driver keeps running: every await of the loop (a reasoning call that
\* returns, faults or is timed out after 30 s, the sleep of 9 s) and every
\* env.step comes to an end
SpecLive == Spec /\ WF_vars(Next)

-----------------------------------------------------------------------------
(* The extraction alone, on every event list up to MaxEvents events of up  *)
(* to MaxParts parts                                                       *)

callNoAction == [duration |-> IntV(2), reasoning |-> "brake"]
callNoDuration == [action |-> "MAIN_ENGINE", reasoning |-> "brake"]
callNoReasoning == [action |-> "MAIN_ENGINE", duration |-> IntV(2)]
callFloat == [action |-> "MAIN_ENGINE", duration |-> FloatV(25), reasoning |-> "brake"]
callNumeral == [action |-> "LEFT_ENGINE", duration |-> StrV("1"), reasoning |-> "tilt"]

ScanCalls == {callBrake, callTilt, callFly, callNegative, callNotInt, callNoAction,
              callNoDuration, callNoReasoning, callFloat, callNumeral}

SeqUpTo(S, n) == UNION {[1..k -> S] : k \in 0..n}

ScanEvents(c) ==
    {NoContentEvent} \cup
    {Event(ps) : ps \in SeqUpTo({TextPart("text"), CallPart(c), CallPart(callBrake)},
                                MaxParts)}

ScanResponses == UNION {SeqUpTo(ScanEvents(c), MaxEvents) : c \in ScanCalls}

\* the first turn of an episode, the Commander's events just received
InitScan ==
    \E d \in {"mission", "eval"}, r \in ScanResponses :
        /\ driver = d
        /\ pc = "extract"
        /\ inflight = {}
        /\ nav_calls = 1
        /\ cmd_calls = 1
        /\ fault_at = "none"
        /\ nav_session = <<Exchange(1, "")>>
        /\ cmd_session = <<Exchange(1, "maneuver")>>
        /\ maneuvers = 0
        /\ lander = NewLander
        /\ closed = 0
        /\ step_count = 1
        /\ episode_reward = 0
        /\ mission_log = <<>>
        /\ telemetry_desc = get_telemetry_description(lander)
        /\ advice = ""
        /\ events = r
        /\ decision = DefaultDecision
        /\ result = None
        /\ burst = None
        /\ fault = "none"
        /\ returned = None
        /\ saved_log = None
        /\ received = r
        /\ timed_out = FALSE
        /\ log_at_fault = <<>>
        /\ tool_args = None
        /\ tool_result = None

NextScan == Extract

SpecScan == InitScan /\ [][NextScan]_vars

-----------------------------------------------------------------------------
(* The two sessions alone, over MaxSessionTurns turns of the loop *)

\* the loop entered, the sessions just created
InitSession == \E d \in {"mission", "eval"} : Start(d, "turns")

\* one turn as the sessions see it: navigator_runner.run_async on
\* nav_session, then commander_runner.run_async on cmd_session
SessionTurn ==
    /\ pc = "turns"
    /\ step_count < MaxSessionTurns
    /\ step_count' = step_count + 1
    /\ nav_calls' = nav_calls + 1
    /\ cmd_calls' = cmd_calls + 1
    /\ \E a \in Advices :
          /\ advice' = a
          /\ nav_session' = RunExchange(nav_session, navigator_compaction,
                                        Exchange(step_count + 1, a), nav_calls + 1)
    /\ cmd_session' = RunExchange(cmd_session, commander_compaction,
                                  Exchange(step_count + 1, "maneuver"),
                                  cmd_calls + 1)
    /\ UNCHANGED <<inflight, fault_at,
                   maneuvers, driver, pc, lander, closed, episode_reward,
                   mission_log, telemetry_desc, events, decision, result,
                   burst, fault, returned, saved_log, received, timed_out,
                   log_at_fault, tool_args, tool_result>>

NextSession == SessionTurn

SpecSession == InitSession /\ [][NextSession]_vars

-----------------------------------------------------------------------------
(* The execute_maneuver tool alone, on every action and duration tried *)

ToolActions == Range(valid_actions) \cup {"FLY", "hold", ""}

\* the Commander call in flight, the model about to call the tool
InitTool ==
    \E d \in {"mission", "eval"}, a \in ToolActions, n \in -1..MaxTryDuration :
        /\ driver = d
        /\ pc = "commander"
        /\ inflight = {"commander"}
        /\ nav_calls = 1
        /\ cmd_calls = 1
        /\ fault_at = "none"
        /\ nav_session = <<Exchange(1, "")>>
        /\ cmd_session = <<>>
        /\ maneuvers = 0
        /\ lander = NewLander
        /\ closed = 0
        /\ step_count = 1
        /\ episode_reward = 0
        /\ mission_log = <<>>
        /\ telemetry_desc = get_telemetry_description(lander)
        /\ advice = ""
        /\ events = <<>>
        /\ decision = DefaultDecision
        /\ result = None
        /\ burst = None
        /\ fault = "none"
        /\ returned = None
        /\ saved_log = None
        /\ received = <<>>
        /\ timed_out = FALSE
        /\ log_at_fault = <<>>
        /\ tool_args = [action |-> a, duration |-> n, reasoning |-> "why"]
        /\ tool_result = None

\* the tool is called with the arguments of the model's function call
ToolCall ==
    /\ tool_args # None
    /\ tool_result = None
    /\ tool_result' = execute_maneuver_tool(tool_args.action, tool_args.duration,
                                            tool_args.reasoning)
    /\ UNCHANGED <<sessions, calls, fault_at,
                   maneuvers, driver, pc, lander, closed, step_count, episode_reward,
                   mission_log, telemetry_desc, advice, events, decision, result,
                   burst, fault, returned, saved_log, received, timed_out,
                   log_at_fault, tool_args>>

NextTool == ToolCall

SpecTool == InitTool /\ [][NextTool]_vars

-----------------------------------------------------------------------------
(* Properties *)

\* the parts of a response in event order and, within an event, part order
RECURSIVE PartsInOrder(_)
PartsInOrder(evs) ==
    IF Len(evs) = 0 THEN <<>>
    ELSE (IF Head(evs).content = None THEN <<>> ELSE Head(evs).content.parts)
         \o PartsInOrder(Tail(evs))

\* the structured tool invocations of a response, in order
CallsOf(evs) == SelectSeq(PartsInOrder(evs), IsCall)

Vocabulary == {"MAIN_ENGINE", "LEFT_ENGINE", "RIGHT_ENGINE", "HOLD"}

\* positions of a turn at which its decision has been extracted
Decided == {"execute", "burst", "log", "sleep"}

LastRecord == mission_log[Len(mission_log)]

\* C1: the validator returns success iff the action is in the vocabulary and
\* 1 <= duration <= 10, an error otherwise, and a success carries the action
\* and duration as supplied
C1_ValidatorAcceptsIffInContract ==
    tool_result # None =>
        LET inContract == /\ tool_args.action \in Vocabulary
                          /\ 1 <= tool_args.duration
                          /\ tool_args.duration <= 10
        IN  /\ (tool_result.status = "success") <=> inContract
            /\ ~inContract => tool_result.status = "error"
            /\ tool_result.status = "success" =>
                  /\ tool_result.action = tool_args.action
                  /\ tool_result.duration = tool_args.duration

\* C1 witness: the tool accepted a call of the longest allowed duration
C1_Witness ==
    /\ tool_result # None
    /\ tool_result.status = "success"
    /\ tool_args.duration = 10

\* C2: every decision passed to LunarLanderInterface.execute_maneuver has its
\* action in the vocabulary and 1 <= duration <= 10
C2_ExecutorGetsOnlyValidDecisions ==
    pc = "burst" =>
        /\ burst.action_name \in Vocabulary
        /\ 1 <= burst.duration
        /\ burst.duration <= 10
        /\ execute_maneuver_tool(burst.action_name, burst.duration,
                                 decision.reasoning).status = "success"

\* C3 (as amended): in a turn whose response holds no tool invocation, the
\* decision executed and logged is {HOLD, 1, "Fallback"}
C3_NoCallGivesFallback ==
    (pc \in Decided /\ Len(CallsOf(events)) = 0) =>
        /\ decision = [action |-> "HOLD", duration |-> 1, reasoning |-> "Fallback"]
        /\ pc \in {"burst", "log"} =>
              burst.action_name = "HOLD" /\ burst.duration = 1
        /\ pc = "sleep" =>
              /\ LastRecord.step = step_count
              /\ LastRecord.commander_decision =
                    [action |-> "HOLD", duration |-> 1, reasoning |-> "Fallback"]

\* C3 witness: a free-text-only response, its turn executed and logged
C3_Witness ==
    /\ pc = "sleep"
    /\ ~timed_out
    /\ events = <<Event(<<TextPart("holding")>>)>>
    /\ LastRecord.commander_decision.reasoning = "Fallback"

\* C3 as stated: the decision is exactly {HOLD, 1, "fallback"}
C3_NoCallGivesLowercaseFallback ==
    (pc \in Decided /\ Len(CallsOf(events)) = 0) =>
        decision = [action |-> "HOLD", duration |-> 1, reasoning |-> "fallback"]

\* C4 (as amended): after a Commander timeout every event received is
\* discarded, the extraction cannot raise, and the decision executed and the
\* TurnRecord appended have action HOLD and reasoning "Fallback"
C4_TimeoutGivesFallbackRecord ==
    (timed_out /\ pc \in Decided \cup {"extract"}) =>
        /\ events = <<>>
        /\ pc = "extract" => ~ExtractDecision(events, decision).raised
        /\ pc \in Decided =>
              decision.action = "HOLD" /\ decision.reasoning = "Fallback"
        /\ pc = "sleep" =>
              /\ LastRecord.step = step_count
              /\ LastRecord.commander_decision.action = "HOLD"
              /\ LastRecord.commander_decision.reasoning = "Fallback"

\* C4 witness: a tool invocation had been received before the deadline, and
\* the turn's record is logged
C4_Witness ==
    /\ timed_out
    /\ pc = "sleep"
    /\ Len(CallsOf(received)) > 0
    /\ LastRecord.step = step_count
    /\ LastRecord.commander_decision.action = "HOLD"

\* C4 as stated: the record's reasoning equals "fallback"
C4_TimeoutGivesLowercaseFallback ==
    (timed_out /\ pc = "sleep") =>
        /\ LastRecord.commander_decision.action = "HOLD"
        /\ LastRecord.commander_decision.reasoning = "fallback"

\* C5: with at least one tool invocation in the response, the decision is
\* the one built from the first invocation in event and part order, and the
\* executor is invoked exactly once in the turn
C5_FirstInvocationWins ==
    /\ (pc \in Decided /\ Len(CallsOf(events)) > 0) =>
          /\ decision = FromCall(Head(CallsOf(events)).function_call.args).decision
          /\ pc \in {"burst", "log"} =>
                /\ burst.action_name = decision.action
                /\ burst.duration = decision.duration
    /\ pc \in {"burst", "log", "sleep"} => maneuvers = step_count
    /\ pc \in {"telemetry", "navigator", "commander", "extract", "execute"} =>
          maneuvers = step_count - 1
    /\ pc \in {"loop", "end"} => maneuvers = step_count

\* C5 witness: three invocations in the response, the first one executed
C5_Witness ==
    /\ pc = "log"
    /\ Len(CallsOf(events)) = 3
    /\ decision.action = "LEFT_ENGINE"
    /\ burst.action_name = "LEFT_ENGINE"
    /\ maneuvers = step_count

\* a tool call with a missing field, a duration that is no integer, an action
\* outside the vocabulary or a duration outside [1,10]
Malformed(args) ==
    \/ {"action", "duration", "reasoning"} \ DOMAIN args # {}
    \/ /\ "duration" \in DOMAIN args
       /\ \/ args.duration.kind # "int"
          \/ args.duration.n < 1
          \/ args.duration.n > 10
    \/ /\ "action" \in DOMAIN args
       /\ args.action \notin Vocabulary

IsDefault(d) ==
    /\ d.action = "HOLD"
    /\ d.duration = 1
    /\ d.reasoning \in {"fallback", "Fallback"}

\* C6: a malformed first tool call gives the default decision {HOLD, 1,
\* "fallback"} (in either spelling of the marker)
C6_MalformedCallGivesDefault ==
    /\ (pc \in Decided /\ Len(CallsOf(events)) > 0
           /\ Malformed(Head(CallsOf(events)).function_call.args)) =>
          IsDefault(decision)
    /\ (pc = "extract" /\ Len(CallsOf(events)) > 0) => ~ExtractDecision(events, decision).raised

\* C7 (as amended): with more than one tool invocation in the response the
\* decision is the one built from the first invocation
C7_FirstOfSeveralWins ==
    (pc \in Decided /\ Len(CallsOf(events)) > 1) =>
        decision = FromCall(Head(CallsOf(events)).function_call.args).decision

\* C7 witness: two different invocations, the decision is not the default
C7_Witness ==
    /\ pc = "execute"
    /\ Len(CallsOf(events)) > 1
    /\ CallsOf(events)[1] # CallsOf(events)[2]
    /\ decision = [action |-> "LEFT_ENGINE", duration |-> 1, reasoning |-> "tilt"]

\* C7 as stated: more than one invocation gives the default decision
C7_SeveralCallsGiveDefault ==
    (pc \in Decided /\ Len(CallsOf(events)) > 1) => IsDefault(decision)

\* C8: an invocation of the executor with duration d >= 0 on a process
\* that is not terminal never applies more than d frames, stops right after
\* the first frame that reports terminal and then returns done = true, and
\* applies exactly d frames when no frame reports terminal
C8_BurstLength ==
    (pc \in {"burst", "log"} /\ ~burst.done_before /\ burst.duration >= 0) =>
        LET applied == lander.steps - burst.steps_before
        IN  /\ applied = burst.i
            /\ applied <= burst.duration
            /\ burst.terminal_at # 0 => applied = burst.terminal_at /\ lander.done
            /\ burst.terminal_at = 0 => ~lander.done
            /\ pc = "log" =>
                  /\ result.done = (burst.terminal_at # 0)
                  /\ burst.terminal_at = 0 => applied = burst.duration

\* C8 witness: a burst of two frames cut short by a terminal first frame
C8_Witness ==
    /\ pc = "log"
    /\ ~burst.done_before
    /\ burst.duration = 2
    /\ lander.steps - burst.steps_before = 1
    /\ result.done

\* the three-way classification by total reward
Outcome(R) == IF R >= 200 THEN "SUCCESS" ELSE IF R <= -100 THEN "CRASH" ELSE "INCOMPLETE"

\* C9 (as amended): an episode of the mission driver that ends without a
\* fault is classified from the interface's running total reward R, SUCCESS
\* iff R >= 200, CRASH iff R <= -100, INCOMPLETE otherwise; the evaluator's
\* result holds no classification, only success = (R >= 200) for the total
\* reward R it reports
C9_ClassificationByTotalReward ==
    pc = "returned" =>
        /\ (driver = "mission" /\ fault = "none") =>
              returned.status = Outcome(lander.total_reward)
        /\ driver = "eval" =>
              /\ returned.success = (returned.total_reward >= 200)
              /\ "status" \notin DOMAIN returned

\* C9 witness: the mission driver returns SUCCESS at a total reward of 200
C9_Witness ==
    /\ pc = "returned"
    /\ driver = "mission"
    /\ fault = "none"
    /\ lander.total_reward = 200
    /\ returned.total_reward = 200
    /\ returned.status = "SUCCESS"

\* C9 as stated: both drivers classify the episode three ways
C9_BothDriversClassify ==
    (pc = "returned" /\ fault = "none") =>
        /\ "status" \in DOMAIN returned
        /\ returned.status = Outcome(returned.total_reward)

\* C10 (as amended): after a fault the TurnRecords appended before it are
\* kept unchanged; the evaluator returns them in its usual result when the
\* fault is an Exception, the mission driver writes them to mission_log.json,
\* returns ABORTED without a log on KeyboardInterrupt and returns nothing on
\* any other exception
C10_FaultKeepsRecords ==
    (fault # "none" /\ fault_at # "setup") =>
        /\ mission_log = log_at_fault
        /\ \A i \in 1..Len(mission_log) : mission_log[i].step = i
        /\ closed = 1
        /\ (driver = "eval" /\ fault = "Exception") =>
              /\ pc = "returned"
              /\ returned.log = log_at_fault
              /\ "status" \notin DOMAIN returned
        /\ (driver = "eval" /\ fault = "KeyboardInterrupt") =>
              pc = "raised" /\ returned = None /\ saved_log = None
        /\ driver = "mission" => saved_log = json_dump(log_at_fault)
        /\ (driver = "mission" /\ fault = "KeyboardInterrupt") =>
              /\ pc = "returned"
              /\ returned.status = "ABORTED"
              /\ "log" \notin DOMAIN returned
        /\ (driver = "mission" /\ fault = "Exception") =>
              pc = "raised" /\ returned = None

\* C10 witness: the evaluator returns the one record of the first turn after
\* a fault in the second
C10_Witness ==
    /\ fault = "Exception"
    /\ driver = "eval"
    /\ pc = "returned"
    /\ Len(returned.log) = 1
    /\ returned.steps = 2

\* C10 as stated, for a fault that is an ordinary Exception: the episode ends
\* ABORTED and the returned result holds every TurnRecord appended before it
C10_FaultReturnsAbortedWithLog ==
    (fault = "Exception" /\ fault_at # "setup") =>
        /\ returned # None
        /\ "status" \in DOMAIN returned
        /\ returned.status = "ABORTED"
        /\ "log" \in DOMAIN returned
        /\ returned.log = log_at_fault

\* positions at which the driver has left the episode after the lander was
\* created
Exited == {"returned", "raised"}

\* C11: on every exit path of an episode after the lander was created (end
\* of the loop, fault in the turn loop, fault during agent or session setup)
\* the lander is closed exactly once and the mission driver has written the
\* mission log accumulated so far
C11_EveryExitClosesAndFlushes ==
    pc \in Exited =>
        /\ closed = 1
        /\ driver = "mission" => saved_log = json_dump(mission_log)

\* the Commander call of the current turn timed out, or the first tool call
\* of its response is invalid or malformed
BadDecisionTurn ==
    /\ step_count > 0
    /\ \/ timed_out
       \/ /\ Len(CallsOf(received)) > 0
          /\ Malformed(Head(CallsOf(received)).function_call.args)

\* C12: a Decider timeout or an invalid or malformed Decider decision never
\* ends the episode: the extraction raises nothing, the turn is executed with
\* a decision and one TurnRecord holding it is appended before the loop test
C12_BadDecisionNeverEndsEpisode ==
    BadDecisionTurn =>
        /\ fault_at # "extract"
        /\ pc \in {"sleep", "loop", "end"} =>
              /\ Len(mission_log) = step_count
              /\ LastRecord.commander_decision = decision

\* positions of a turn before lander.execute_maneuver is entered
BeforeExecution == {"telemetry", "navigator", "commander", "extract", "execute"}

\* C13: within a turn and across turns the events are strictly sequential:
\* the Advisor call is in flight only between its start and its end, it has
\* ended before the Decider call starts, the Decider call has ended or timed
\* out before the execution starts, the two calls are never in flight
\* together, and the execution of turn N has completed (its frame loop has
\* ended and its record is in the log) before turn N+1 reads the telemetry
C13_TurnEventsSequential ==
    /\ Cardinality(inflight) <= 1
    /\ ("navigator" \in inflight) <=> (pc = "navigator")
    /\ ("commander" \in inflight) <=> (pc = "commander")
    /\ pc = "navigator" => (nav_calls = step_count /\ cmd_calls = step_count - 1)
    /\ pc = "commander" => (nav_calls = step_count /\ cmd_calls = step_count)
    /\ pc \in {"extract", "execute", "burst"} => inflight = {}
    /\ pc \in BeforeExecution =>
          /\ maneuvers = step_count - 1
          /\ Len(mission_log) = step_count - 1
          /\ step_count > 1 => ~LoopContinues(burst, lander)
    /\ pc = "burst" => maneuvers = step_count

\* C13 witness: the Decider call of the second turn is in flight alone, after
\* a first turn whose Decider call timed out and whose maneuver has run
C13_Witness ==
    /\ pc = "commander"
    /\ step_count = 2
    /\ inflight = {"commander"}
    /\ maneuvers = 1
    /\ mission_log[1].commander_decision.reasoning = "Fallback"
    /\ burst.i > 0

\* positions at which the entry point has ended
Terminal == {"returned", "raised", "no_key"}

\* the number of turns started is within the budget, a turn is started only
\* while the lander has not reported done, and the loop is left only when
\* the lander is done or the budget is used up
WithinBudget ==
    /\ step_count <= max_steps
    /\ pc \in BeforeExecution => ~lander.done
    /\ pc = "end" => (lander.done \/ step_count = max_steps)

\* C14: provided every reasoning call returns, faults or is timed out, every
\* episode eventually ends; the number of turns never exceeds the budget
\* max_steps and no turn starts after the lander has reported done
C14_EpisodeEndsWithinBudget == [](WithinBudget) /\ <>(pc \in Terminal)

\* C14 witness: the loop was left because the budget was used up, the lander
\* still flying
C14_Witness ==
    /\ pc = "returned"
    /\ fault = "none"
    /\ step_count = max_steps
    /\ ~lander.done
    /\ Len(mission_log) = max_steps

\* C15: when the API key is missing the entry point ends at once (the mission
\* driver with the ABORTED result, the evaluation driver with no result and
\* no report) before any lander, agent or session is created and before any
\* turn: no reasoning call is started, no maneuver or frame is run and no
\* log is written
C15_NoKeyDoesNothing ==
    pc = "no_key" =>
        /\ lander = None
        /\ closed = 0
        /\ nav_calls = 0 /\ cmd_calls = 0 /\ inflight = {}
        /\ nav_session = <<>> /\ cmd_session = <<>>
        /\ step_count = 0
        /\ maneuvers = 0 /\ burst = None
        /\ mission_log = <<>> /\ saved_log = None
        /\ fault = "none"
        /\ driver = "mission" => returned = [status |-> "ABORTED", error |-> "No API key"]
        /\ driver = "eval" => returned = None

\* C15 witness: the mission driver has returned ABORTED for the missing key
C15_Witness ==
    /\ pc = "no_key"
    /\ driver = "mission"
    /\ returned # None
    /\ returned.status = "ABORTED"
    /\ returned.error = "No API key"

C18_OnlyNavigatorSessionCompacted ==
    /\ Len(FullExchanges(nav_session)) <= compaction_interval + overlap_size - 1
    /\ Covered(nav_session) = nav_calls
    /\ nav_calls >= compaction_interval =>
          /\ nav_session[1].kind = "summary"
          /\ Len(FullExchanges(nav_session)) = Len(nav_session) - 1
    /\ (nav_calls > 0 /\ nav_calls % compaction_interval = 0) =>
          /\ Len(nav_session) = overlap_size + 1
          /\ \A i \in 1..overlap_size :
                nav_session[1 + i].turn = nav_calls - overlap_size + i
    /\ Len(cmd_session) = cmd_calls
    /\ \A i \in 1..Len(cmd_session) :
          IsExchange(cmd_session[i]) /\ cmd_session[i].turn = i

\* C18 witness: the second compaction of the Navigator's session has just
\* run, the Commander's session holds all twenty exchanges
C18_Witness ==
    /\ nav_calls = 2 * compaction_interval
    /\ Len(nav_session) = overlap_size + 1
    /\ nav_session[1] = [kind |-> "summary", covers |-> 18]
    /\ nav_session[2].turn = 19
    /\ nav_session[2].text = "decelerate"
    /\ Len(FullExchanges(cmd_session)) = 20

\* C18 as stated: the number of exchanges held in full by either session
\* stays bounded by the interval and the number kept
C18_BothSessionsBounded ==
    /\ Len(FullExchanges(nav_session)) <= compaction_interval + overlap_size
    /\ Len(FullExchanges(cmd_session)) <= compaction_interval + overlap_size

\* lander.steps when the current turn began: the frames counted by the last
\* record, none before the first turn
FramesAtTurnStart ==
    IF Len(mission_log) = 0 THEN 0
    ELSE LastRecord.execution_result.final_telemetry.steps_taken

\* C19: when the Navigator call of a turn raises, the exception leaves the
\* turn loop with no advice substituted: in that turn no Commander call is
\* started, no maneuver is executed, no frame is stepped and no TurnRecord
\* is appended
C19_AdvisorFaultEndsTurn ==
    fault_at = "navigator" =>
        /\ pc \in Exited
        /\ advice = ""
        /\ inflight = {}
        /\ nav_calls = step_count
        /\ cmd_calls = step_count - 1
        /\ maneuvers = step_count - 1
        /\ lander.steps = FramesAtTurnStart
        /\ Len(mission_log) = step_count - 1
        /\ mission_log = log_at_fault

\* C19 witness: the Navigator call of the second turn raised after a first
\* turn that stepped frames, and the evaluator returned
C19_Witness ==
    /\ fault_at = "navigator"
    /\ fault = "Exception"
    /\ driver = "eval"
    /\ pc = "returned"
    /\ step_count = 2
    /\ cmd_calls = 1
    /\ lander.steps = 2
    /\ Len(returned.log) = 1

\* the log holds one record per completed turn, numbered 1, 2, ..., n
LogIndexed ==
    /\ \A i \in 1..Len(mission_log) : mission_log[i].step = i
    /\ pc \in {"sleep", "loop", "end"} => Len(mission_log) = step_count
    /\ pc \in BeforeExecution \cup {"burst", "log"} =>
          Len(mission_log) = step_count - 1
    /\ pc \in Exited =>
          (Len(mission_log) = step_count \/ Len(mission_log) = step_count - 1)

\* a step leaves the records of the log as they are, and adds at most one
\* record, at the end, in the append of the turn
LogGrowsByAppend ==
    /\ Len(mission_log') >= Len(mission_log)
    /\ SubSeq(mission_log', 1, Len(mission_log)) = mission_log
    /\ mission_log' # mission_log =>
          /\ pc = "log"
          /\ pc' = "sleep"
          /\ Len(mission_log') = Len(mission_log) + 1
          /\ mission_log'[Len(mission_log')].step = step_count
          /\ mission_log'[Len(mission_log')].commander_decision = decision
          /\ mission_log'[Len(mission_log')].execution_result = result

\* C20: each completed turn appends exactly one TurnRecord, no record is
\* modified or removed afterwards, and the step indices of the log are
\* 1, 2, ..., n in order
C20_OneRecordPerTurn == [](LogIndexed) /\ [][LogGrowsByAppend]_vars

\* C20 witness: two turns are complete and the log holds their two records,
\* the first one a MAIN_ENGINE burst, the second one the fallback
C20_Witness ==
    /\ pc = "sleep"
    /\ step_count = 2
    /\ Len(mission_log) = 2
    /\ mission_log[1].step = 1
    /\ mission_log[2].step = 2
    /\ mission_log[1].commander_decision.action = "MAIN_ENGINE"
    /\ mission_log[2].commander_decision = DefaultDecision

-----------------------------------------------------------------------------
(* C21..C26: the executor's result, the telemetry and the episode totals *)

RECURSIVE SumRewards(_)
\* the rewards of a run of frames added up as floats in the order the frames ran
SumRewards(rewards) ==
    IF rewards = <<>> THEN 0
    ELSE FAdd(SumRewards(SubSeq(rewards, 1, Len(rewards) - 1)),
              rewards[Len(rewards)])

\* the process's terminal flag after the last frame an invocation applied
\* (its flag at the call when no frame was applied)
TerminalAfterLastFrame ==
    IF burst.i > 0 THEN burst.terminal_at = burst.i ELSE burst.done_before

\* C21: each executor invocation returns exactly one result; its
\* reward_accumulated is the sum of the rewards of exactly the frames applied
\* in that invocation (0 when none was applied) and its done flag is the
\* process's terminal flag after the last applied frame
C21_ResultSumsAppliedFrames ==
    /\ [](/\ pc = "burst" =>
                /\ Len(burst.frame_rewards) = burst.i
                /\ burst.i = lander.steps - burst.steps_before
                /\ burst.step_rewards = SumRewards(burst.frame_rewards)
          /\ pc = "log" =>
                /\ maneuvers = Len(mission_log) + 1
                /\ burst.i = lander.steps - burst.steps_before
                /\ burst.i = 0 => result.reward_accumulated = 0
                /\ result.done = TerminalAfterLastFrame
                /\ result.done = lander.done)
    /\ [][(pc = "burst" /\ pc' = "log") =>
             /\ result'.reward_accumulated = SumRewards(burst.frame_rewards)
             /\ Len(burst.frame_rewards) = lander'.steps - burst.steps_before
             /\ maneuvers' = maneuvers
             /\ lander' = lander]_vars

\* C21 witness: the second invocation of an episode returned after two frames
\* of reward 100 each, the second of them terminal, following a first
\* invocation that had earned reward itself
C21_Witness ==
    /\ pc = "log"
    /\ step_count = 2
    /\ burst.i = 2
    /\ burst.step_rewards = 200
    /\ result.reward_accumulated = 200
    /\ result.done
    /\ lander.total_reward = 300

\* C22: the duration reported in every result of the executor equals the
\* number of frames applied to the process in that invocation, also when the
\* process became terminal before the requested duration elapsed
C22_DurationIsFramesApplied ==
    pc = "log" => result.duration = lander.steps - burst.steps_before

-----------------------------------------------------------------------------
(* SpecLander: the interface under any caller.  The initial states are the
   calls lander.execute_maneuver(action, duration) of a first turn on an
   interface in any state its own methods can leave it in: in flight or
   terminal, with or without frames applied, over a process that may report
   any of Vectors as its next state *)

\* the (action, duration) pairs the interface is called with
LanderCalls ==
    {<<"HOLD", 1>>, <<"MAIN_ENGINE", 2>>, <<"LEFT_ENGINE", 3>>, <<"HOLD", -1>>}

InitLander ==
    \E d \in {"mission", "eval"}, c \in LanderCalls, s \in Vectors,
       done \in BOOLEAN, n \in 0..1 :
        /\ driver = d
        /\ pc = "execute"
        /\ inflight = {}
        /\ nav_calls = 1
        /\ cmd_calls = 1
        /\ fault_at = "none"
        /\ nav_session = <<Exchange(1, "")>>
        /\ cmd_session = <<Exchange(1, "")>>
        /\ maneuvers = 0
        /\ lander = [done |-> done, total_reward |-> 0, steps |-> n,
                     current_state |-> s, frames |-> n,
                     env |-> [rewards |-> {-100, 100}, free |-> TRUE]]
        /\ closed = 0
        /\ step_count = 1
        /\ episode_reward = 0
        /\ mission_log = <<>>
        /\ telemetry_desc = get_telemetry_description(lander)
        /\ advice = ""
        /\ events = <<>>
        /\ decision = [action |-> c[1], duration |-> c[2], reasoning |-> "why"]
        /\ result = None
        /\ burst = None
        /\ fault = "none"
        /\ returned = None
        /\ saved_log = None
        /\ received = <<>>
        /\ timed_out = FALSE
        /\ log_at_fault = <<>>
        /\ tool_args = None
        /\ tool_result = None

\* LunarLanderInterface.reset, called between two invocations of the executor
Reset ==
    /\ pc = "execute"
    /\ lander.steps > 0 \/ lander.done
    /\ \E s \in Vectors :
          lander' = [done |-> FALSE, total_reward |-> 0, steps |-> 0,
                     current_state |-> s, frames |-> 0, env |-> lander.env]
    /\ UNCHANGED <<sessions, calls, fault_at,
                   maneuvers, driver, pc, closed, step_count, episode_reward,
                   mission_log, telemetry_desc, advice, events, decision,
                   result, burst, fault, returned, saved_log, received,
                   timed_out, log_at_fault, tool_args, tool_result>>

NextLander ==
    \/ Reset
    \/ ExecuteCall
    \/ BurstFrame
    \/ BurstReturn
    \/ LogAppend
    \/ Sleep
    \/ LoopTest
    \/ GetTelemetry
    \/ MissionEnd
    \/ EvalEnd

SpecLander == InitLander /\ [][NextLander]_vars

\* C23: the telemetry snapshot an invocation returns is read from the state
\* vector [x, y, vx, vy, angle, angular velocity, leg 1, leg 2] as altitude = y,
\* horizontal position = x, vertical velocity = vy, horizontal velocity = vx,
\* angle, angular velocity and the two leg flags in order; its step count is
\* the number of frames applied since the last reset; and the status rendered
\* at the start of a turn is the touchdown status iff a leg flag is true
C23_TelemetryReadsStateVector ==
    /\ pc = "log" =>
          LET t == result.final_telemetry
              s == lander.current_state
          IN  /\ Len(s) = 8
              /\ t.altitude = s[2]
              /\ t.horizontal_position = s[1]
              /\ t.vertical_velocity = s[4]
              /\ t.horizontal_velocity = s[3]
              /\ t.angle = s[5]
              /\ t.angular_velocity = s[6]
              /\ t.left_leg_contact = (s[7] # 0)
              /\ t.right_leg_contact = (s[8] # 0)
              /\ t.steps_taken = lander.frames
              /\ t.steps_taken = burst.steps_before + burst.i
    /\ pc = "navigator" =>
          /\ telemetry_desc.status \in {"Flying", "Touchdown imminent/Landed"}
          /\ telemetry_desc.status = "Touchdown imminent/Landed"
                <=> (lander.current_state[7] # 0 \/ lander.current_state[8] # 0)
          /\ telemetry_desc.altitude = Fmt2(lander.current_state[2])
          /\ telemetry_desc.position_x = Fmt2(lander.current_state[1])

\* C23 witness: the second turn starts on a process standing on its left leg
\* only, after an invocation that applied two frames since the reset
C23_Witness ==
    /\ pc = "navigator"
    /\ step_count = 2
    /\ telemetry_desc.status = "Touchdown imminent/Landed"
    /\ telemetry_desc.altitude = [sign |-> "", hundredths |-> 10]
    /\ telemetry_desc.position_x = [sign |-> "", hundredths |-> 21]
    /\ burst.steps_before = 0
    /\ burst.i = 2
    /\ LET t == mission_log[1].execution_result.final_telemetry
       IN  /\ t.steps_taken = 2
           /\ t.altitude = 96
           /\ t.horizontal_position = 211
           /\ t.left_leg_contact
           /\ ~t.right_leg_contact

-----------------------------------------------------------------------------
(* SpecReward: the turn loop of both drivers over a process whose frame
   rewards are far apart in magnitude, from the first test of the loop *)

\* frame rewards of a process that earns the landing bonus and then pays
\* small penalties
SmallRewards == {-1, 200}

InitReward ==
    \E d \in {"mission", "eval"} :
        /\ driver = d
        /\ pc = "loop"
        /\ inflight = {}
        /\ nav_calls = 0
        /\ cmd_calls = 0
        /\ fault_at = "none"
        /\ nav_session = <<>>
        /\ cmd_session = <<>>
        /\ maneuvers = 0
        /\ lander = [NewLander EXCEPT !.env.rewards = SmallRewards]
        /\ closed = 0
        /\ step_count = 0
        /\ episode_reward = 0
        /\ mission_log = <<>>
        /\ telemetry_desc = None
        /\ advice = ""
        /\ events = <<>>
        /\ decision = None
        /\ result = None
        /\ burst = None
        /\ fault = "none"
        /\ returned = None
        /\ saved_log = None
        /\ received = <<>>
        /\ timed_out = FALSE
        /\ log_at_fault = <<>>
        /\ tool_args = None
        /\ tool_result = None

NextReward ==
    \/ LoopTest
    \/ GetTelemetry
    \/ NavigatorReturn
    \/ CommanderReturn
    \/ CommanderTimeout
    \/ Extract
    \/ ExecuteCall
    \/ BurstFrame
    \/ BurstReturn
    \/ LogAppend
    \/ Sleep
    \/ Raise
    \/ MissionEnd
    \/ EvalEnd

SpecReward == InitReward /\ [][NextReward]_vars

\* C24: at every turn boundary the controller's accumulated episode reward
\* equals the interface's own running total_reward, so the total the mission
\* driver reports and the status it derives can never disagree
C24_RewardTotalsAgree ==
    /\ pc = "loop" => episode_reward = lander.total_reward
    /\ (pc = "returned" /\ driver = "mission" /\ fault = "none") =>
          returned.status = Outcome(returned.total_reward)

\* the two totals differ at a turn boundary
C24_TotalsDiffer ==
    /\ pc = "loop"
    /\ episode_reward # lander.total_reward

\* the mission driver returns SUCCESS with a reported total below 200
C24_StatusDisagrees ==
    /\ pc = "returned"
    /\ driver = "mission"
    /\ fault = "none"
    /\ returned.status = "SUCCESS"
    /\ returned.total_reward < 200

\* a frame was applied to the process in this step
FrameApplied == lander'.steps # lander.steps \/ lander'.frames # lander.frames

\* C25: once the process has reported terminated or truncated no further
\* frame is applied to it until it is reset: an invocation of the executor on
\* a terminal process applies zero frames and returns done = true with zero
\* reward, and the turn loop starts no new turn
C25_NoStepAfterTerminal ==
    /\ [](/\ (burst # None /\ pc \in {"burst", "log"} /\ burst.done_before) =>
                /\ burst.i = 0
                /\ burst.frame_rewards = <<>>
                /\ lander.done
                /\ lander.steps = burst.steps_before
                /\ pc = "log" => /\ result.done
                                 /\ result.reward_accumulated = 0
          /\ pc \in {"telemetry", "navigator"} => ~lander.done)
    /\ [][/\ (lander.done /\ FrameApplied) =>
                /\ pc = "execute"
                /\ ~lander'.done
                /\ lander'.steps = 0
                /\ lander'.frames = 0
          /\ (pc = "loop" /\ lander.done) =>
                /\ pc' = "end"
                /\ step_count' = step_count]_vars

\* C25 witness: the executor returned from a call for two MAIN_ENGINE frames
\* on a process that was terminal at the call, after one earlier frame
C25_Witness ==
    /\ pc = "log"
    /\ burst.done_before
    /\ burst.action_name = "MAIN_ENGINE"
    /\ burst.duration = 2
    /\ burst.i = 0
    /\ lander.steps = 1
    /\ result.done
    /\ result.reward_accumulated = 0

\* C26: in every episode result returned to the caller, on every exit path
\* including a fault in the middle of a turn, the reported step count equals
\* the number of TurnRecords in the returned log
C26_StepsEqualLogLength ==
    (pc = "returned" /\ "log" \in DOMAIN returned) =>
        returned.steps = Len(returned.log)

====
